---- MODULE Spec2Model ----
(***************************************************************************)
(* Model of bluesky_nexus.convert_nexus: the conversion of NeXus           *)
(* definition documents (nxdl.yml) into the simplified representation.     *)
(*                                                                         *)
(* Python values are tagged records:                                       *)
(*   None -> [k |-> "none"]        str  -> [k |-> "str",  s |-> "..."]     *)
(*   int  -> [k |-> "int", n |-> i] list -> [k |-> "list", l |-> <<..>>]   *)
(*   dict -> [k |-> "dict", d |-> << <<key, value>>, ... >>]               *)
(* A dict keeps its insertion order (a sequence of key/value pairs with    *)
(* distinct keys), as Python's dict does.  A raised exception is the value *)
(* [k |-> "err", e |-> <exception class>]; every operator that calls       *)
(* another one passes the callee's exception on, as Python does.           *)
(***************************************************************************)
EXTENDS Naturals, Sequences, FiniteSets, TLC

VARIABLES
    fs,      \* the files on disk: file name -> parsed YAML content, or Absent
    input,   \* the arguments of the call made (or to be made)
    op,      \* the last step taken
    result,  \* what the last call returned or raised
    prev,    \* the conversion whose result was last dumped to out.yml
    dumps    \* how many results were dumped

vars == <<fs, input, op, result, prev, dumps>>

----------------------------------------------------------------------------
(* Python values *)

PyNone == [k |-> "none"]
Str(s) == [k |-> "str", s |-> s]
Int(n) == [k |-> "int", n |-> n]
List(l) == [k |-> "list", l |-> l]
Dict(d) == [k |-> "dict", d |-> d]
Err(e) == [k |-> "err", e |-> e]
Absent == [k |-> "absent"]

IsErr(v) == v.k = "err"
IsDict(v) == v.k = "dict"
IsStr(v) == v.k = "str"

\* bool(v): Python's truth value of v
Truthy(v) ==
    CASE v.k = "none" -> FALSE
      [] v.k = "str" -> v.s # ""
      [] v.k = "int" -> v.n # 0
      [] v.k = "list" -> Len(v.l) > 0
      [] v.k = "dict" -> Len(v.d) > 0
      [] OTHER -> TRUE

\* dict primitives on the pair sequence d
KeysOf(d) == [i \in 1..Len(d) |-> d[i][1]]
KeySet(d) == {d[i][1] : i \in 1..Len(d)}
HasKey(d, key) == \E i \in 1..Len(d) : d[i][1] = key
Lookup(d, key) == d[CHOOSE i \in 1..Len(d) : d[i][1] = key][2]
\* d.get(key, dflt)
Get(d, key, dflt) == IF HasKey(d, key) THEN Lookup(d, key) ELSE dflt
\* d[key] = v : an existing key keeps its place, a new key goes last
Put(d, key, v) ==
    IF HasKey(d, key)
    THEN [i \in 1..Len(d) |-> IF d[i][1] = key THEN <<key, v>> ELSE d[i]]
    ELSE Append(d, <<key, v>>)
\* d.pop(key, ...) : the dict that is left
Remove(d, key) == SelectSeq(d, LAMBDA p : p[1] # key)

RECURSIVE UpdateFrom(_, _, _)
UpdateFrom(d, u, i) ==
    IF i > Len(u) THEN d ELSE UpdateFrom(Put(d, u[i][1], u[i][2]), u, i + 1)
\* d.update(u)
Update(d, u) == UpdateFrom(d, u, 1)

\* Python's == on values: dicts compare without regard to order
RECURSIVE PyEq(_, _)
PyEq(a, b) ==
    /\ a.k = b.k
    /\ CASE a.k = "str" -> a.s = b.s
         [] a.k = "int" -> a.n = b.n
         [] a.k = "err" -> a.e = b.e
         [] a.k = "list" ->
              /\ Len(a.l) = Len(b.l)
              /\ \A i \in 1..Len(a.l) : PyEq(a.l[i], b.l[i])
         [] a.k = "dict" ->
              /\ KeySet(a.d) = KeySet(b.d)
              /\ \A key \in KeySet(a.d) : PyEq(Lookup(a.d, key), Lookup(b.d, key))
         [] OTHER -> TRUE

----------------------------------------------------------------------------
(* deep_update *)

\* `if v := ...: d[key] = v` : the store happens for a true value only
PutIf(d, key, v) == IF Truthy(v) THEN Put(d, key, v) ELSE d

\* d[key] = sub, unless computing sub raised
StoreOrRaise(d, key, sub) == IF IsErr(sub) THEN sub ELSE Dict(Put(d, key, sub))

\* the exception of d[k] = ... or d.get(k, {}) on a d that is no dict
NonDictStore(v) == IF IsDict(v) THEN Err("AttributeError") ELSE Err("TypeError")

RECURSIVE deep_update(_, _)

\* one iteration of the loop over u.items()
DeepUpdateItem(d, key, v) ==
    IF ~IsDict(d) THEN NonDictStore(v)
    ELSE IF IsDict(v)
         THEN StoreOrRaise(d.d, key, deep_update(Get(d.d, key, Dict(<<>>)), v))
         ELSE Dict(Put(d.d, key, v))

RECURSIVE DeepUpdateFrom(_, _, _)
DeepUpdateFrom(d, u, i) ==
    IF i > Len(u) \/ IsErr(d) THEN d
    ELSE DeepUpdateFrom(DeepUpdateItem(d, u[i][1], u[i][2]), u, i + 1)

deep_update(d, u) == DeepUpdateFrom(d, u.d, 1)

----------------
(* The key grammar.  re.match of each pattern is tabulated over the keys   *)
(* the model's documents use; a match is the tuple match.groups(), with    *)
(* PyNone for an optional group that took no part, and NoMatch is re.match *)
(* returning None.                                                         *)

NoMatch == <<>>

\* keys made of word characters only: RE_FIELD matches them with no type token
Words ==
    {"doc", "type", "category", "symbols", "deprecated", "ignoreExtraFields",
     "ignoreExtraAttributes", "ignoreExtraGroups", "name", "probe", "energy",
     "enumeration", "nxclass", "value", "dtype", "attrs", "units", "target",
     "entry", "source", "data", "a", "b", "mode"}

RE_GROUP(key) ==
    CASE key = "source(NXsource)" -> <<"source", "NXsource", "">>
      [] key = "(NXsource)" -> <<"", "NXsource", "">>
      [] key = "(NXdata)" -> <<"", "NXdata", "">>
      [] key = "(NXdata)data" -> <<"", "NXdata", "data">>
      [] key = "entry(NXentry)" -> <<"entry", "NXentry", "">>
      [] key = "NXsource(NXobject)" -> <<"NXsource", "NXobject", "">>
      [] key = "category(NXcollection)" -> <<"category", "NXcollection", "">>
      [] OTHER -> NoMatch

RE_FIELD(key) ==
    CASE key \in Words -> <<Str(key), PyNone>>
      [] key = "name(NX_CHAR)" -> <<Str("name"), Str("NX_CHAR")>>
      [] key = "mode(NX_CHAR)" -> <<Str("mode"), Str("NX_CHAR")>>
      [] key = "probe(NX_CHAR)" -> <<Str("probe"), Str("NX_CHAR")>>
      [] key = "energy(NX_FLOAT)" -> <<Str("energy"), Str("NX_FLOAT")>>
      [] key = "energy(NX_NUMBER)" -> <<Str("energy"), Str("NX_NUMBER")>>
      [] key = "data(NX_INT)" -> <<Str("data"), Str("NX_INT")>>
      [] key = "mode(NX_BOOLEAN)" -> <<Str("mode"), Str("NX_BOOLEAN")>>
      [] key = "name(NX_DATE_TIME)" -> <<Str("name"), Str("NX_DATE_TIME")>>
      [] key = "mode(NX_POSINT)" -> <<Str("mode"), Str("NX_POSINT")>>
      [] OTHER -> NoMatch

RE_ATTRIBUTE(key) ==
    CASE key = "@default" -> <<Str("default"), PyNone>>
      [] key = "@default(NX_CHAR)" -> <<Str("default"), Str("NX_CHAR")>>
      [] key = "\\@units" -> <<Str("units"), PyNone>>
      [] key = "@units(NX_FLOAT)" -> <<Str("units"), Str("NX_FLOAT")>>
      [] OTHER -> NoMatch

RE_LINK(key) ==
    CASE key = "data(link)" -> <<Str("data")>>
      [] OTHER -> NoMatch

RE_CHOICE(key) ==
    CASE key = "probe(choice)" -> <<Str("probe")>>
      [] OTHER -> NoMatch

\* key.startswith("$")
StartsWithDollar(key) == key \in {"$value", "$units", "$nxdlref"}

\* s.startswith("NX")
StartsWithNX(s) ==
    s \in {"NXsource", "NXdata", "NXentry", "NXobject", "NXcollection", "NXfield",
           "NXlink"}

\* s[2:]
DropTwo(s) ==
    CASE s = "NXsource" -> "source"
      [] s = "NXdata" -> "data"
      [] s = "NXentry" -> "entry"
      [] s = "NXobject" -> "object"
      [] s = "NXcollection" -> "collection"

\* str(v), as an f-string or str.join formats v
PyStr(v) ==
    CASE v.k = "str" -> v.s
      [] v.k = "none" -> "None"
      [] v.k = "int" /\ v.n = 0 -> "0"
      [] v.k = "int" /\ v.n = 1 -> "1"

----------------------------------------------------------------------------
(* parse_nxdlyml_level *)

\* val or {}
OrEmpty(val) == IF Truthy(val) THEN val ELSE Dict(<<>>)

\* the four lists and the residual properties, as the loop holds them
EmptyLevel ==
    [groups |-> <<>>, fields |-> <<>>, attributes |-> <<>>, links |-> <<>>,
     result |-> <<>>, err |-> PyNone]

\* " | ".join of the alternatives' classes
RECURSIVE JoinClasses(_, _)
JoinClasses(gs, i) ==
    IF i = Len(gs) THEN Lookup(gs[i].d, "nx_class").s
    ELSE Lookup(gs[i].d, "nx_class").s \o " | " \o JoinClasses(gs, i + 1)

\* "<class>: <doc>" of one alternative
ChoiceLine(g) ==
    PyStr(Get(g, "nx_class", PyNone)) \o ": " \o PyStr(Get(g, "doc", PyNone))

\* "\n".join of the alternatives' lines
RECURSIVE JoinDocs(_, _)
JoinDocs(gs, i) ==
    IF i = Len(gs) THEN ChoiceLine(gs[i].d)
    ELSE ChoiceLine(gs[i].d) \o "\n" \o JoinDocs(gs, i + 1)

\* result[name] = list, for a list that is not empty
PutList(d, name, list) == IF Len(list) > 0 THEN Put(d, name, List(list)) ELSE d

\* the loop's tail: the non-empty lists are stored under their names
LevelResult(st) ==
    Dict(PutList(PutList(PutList(PutList(st.result, "groups", st.groups),
                                 "fields", st.fields),
                         "attributes", st.attributes),
                 "links", st.links))

RECURSIVE parse_nxdlyml_level(_)

\* subdict.update(parse_nxdlyml_level(val or {})) and the append to a list
AppendParsed(st, list, subdict, sub) ==
    IF IsErr(sub) THEN [st EXCEPT !.err = sub]
    ELSE [st EXCEPT ![list] = Append(@, Dict(Update(subdict, sub.d)))]

\* the name and the class of a group key, from its match
GroupName(m) == IF m[1] # "" THEN m[1] ELSE IF m[3] # "" THEN m[3] ELSE DropTwo(m[2])
IsTopLevel(m) == m[2] = "NXobject" /\ StartsWithNX(GroupName(m))

GroupBranch(st, m, val) ==
    AppendParsed(st, "groups",
        <<<<"nx_term", Str("group")>>,
          <<"nx_name", Str(IF IsTopLevel(m) THEN DropTwo(GroupName(m)) ELSE GroupName(m))>>,
          <<"nx_class", Str(IF IsTopLevel(m) THEN GroupName(m) ELSE m[2])>>>>,
        parse_nxdlyml_level(OrEmpty(val)))

FieldBranch(st, m, key, val) ==
    IF m[2] = PyNone /\ ~IsDict(val)
    THEN [st EXCEPT !.result = Put(@, key, val)]
    ELSE IF m[1].s = "enumeration"
    THEN IF IsDict(val)
         THEN [st EXCEPT !.result =
                  Put(@, key, List([i \in 1..Len(val.d) |-> Str(val.d[i][1])]))]
         ELSE [st EXCEPT !.err = Err("AttributeError")]
    ELSE AppendParsed(st, "fields",
             <<<<"nx_term", Str("field")>>, <<"nx_name", m[1]>>, <<"nx_type", m[2]>>>>,
             parse_nxdlyml_level(OrEmpty(val)))

AttributeBranch(st, m, val) ==
    AppendParsed(st, "attributes",
        <<<<"nx_term", Str("attribute")>>, <<"nx_name", m[1]>>, <<"nx_type", m[2]>>>>,
        parse_nxdlyml_level(OrEmpty(val)))

LinkBranch(st, m, val) ==
    AppendParsed(st, "links",
        <<<<"nx_term", Str("link")>>, <<"nx_name", m[1]>>, <<"nx_type", PyNone>>>>,
        parse_nxdlyml_level(OrEmpty(val)))

\* the alternatives are read from sub["groups"] and folded into one entry
ChoiceEntry(st, m, sub) ==
    IF IsErr(sub) THEN [st EXCEPT !.err = sub]
    ELSE IF ~HasKey(sub.d, "groups") THEN [st EXCEPT !.err = Err("KeyError")]
    ELSE [st EXCEPT !.groups =
             Append(@, Dict(<<<<"nx_term", Str("field")>>, <<"nx_name", m[1]>>,
                              <<"nx_class", Str(JoinClasses(Lookup(sub.d, "groups").l, 1))>>,
                              <<"doc", Str(JoinDocs(Lookup(sub.d, "groups").l, 1))>>>>))]

ChoiceBranch(st, m, val) == ChoiceEntry(st, m, parse_nxdlyml_level(OrEmpty(val)))

\* the branch of a `$` key: the value is stored, then match.groups() is read
\* from `match`, which holds what the last pattern tried (RE_CHOICE) returned
DollarBranch(st, key, val) ==
    IF RE_CHOICE(key) = NoMatch
    THEN [st EXCEPT !.err = Err("AttributeError")]
    ELSE [st EXCEPT !.result = Put(@, key, val)]

\* one iteration of the loop over level.items()
ParseKey(st, key, val) ==
    IF RE_GROUP(key) # NoMatch THEN GroupBranch(st, RE_GROUP(key), val)
    ELSE IF RE_FIELD(key) # NoMatch THEN FieldBranch(st, RE_FIELD(key), key, val)
    ELSE IF RE_ATTRIBUTE(key) # NoMatch THEN AttributeBranch(st, RE_ATTRIBUTE(key), val)
    ELSE IF RE_LINK(key) # NoMatch THEN LinkBranch(st, RE_LINK(key), val)
    ELSE IF RE_CHOICE(key) # NoMatch THEN ChoiceBranch(st, RE_CHOICE(key), val)
    ELSE IF StartsWithDollar(key) THEN DollarBranch(st, key, val)
    ELSE [st EXCEPT !.err = Err("ValueError")]

RECURSIVE ParseFrom(_, _, _)
ParseFrom(st, level, i) ==
    IF IsErr(st.err) THEN st.err
    ELSE IF i > Len(level) THEN LevelResult(st)
    ELSE ParseFrom(ParseKey(st, level[i][1], level[i][2]), level, i + 1)

parse_nxdlyml_level(level) ==
    IF ~IsDict(level) THEN Err("AttributeError")
    ELSE ParseFrom(EmptyLevel, level.d, 1)

----------------------------------------------------------------------------
(* convert_attributes, convert_fields, convert_links *)

NX_DTYPES(token) ==
    CASE token = "NX_FLOAT" -> Str("float32")
      [] token = "NX_INT" -> Str("int16")
      [] token = "NX_BOOLEAN" -> Str("bool")
      [] token = "NX_CHAR" -> Str("str")
      [] token = "NX_NUMBER" -> Str("float32")
      [] token = "NX_DATE_TIME" -> Str("datetime64")
      [] OTHER -> PyNone

\* item.get("type", item.get("nx_type"))
TypeToken(item) == Get(item, "type", Get(item, "nx_type", PyNone))

\* NX_DTYPES.get(token, None): a list or a dict is unhashable
DtypeOf(item) ==
    IF TypeToken(item).k \in {"list", "dict"} THEN Err("TypeError")
    ELSE IF IsStr(TypeToken(item)) THEN NX_DTYPES(TypeToken(item).s)
    ELSE PyNone

\* the elements np.array sees
ArrayElements(enum) ==
    IF enum.k = "list" THEN {enum.l[i] : i \in 1..Len(enum.l)} ELSE {enum}

\* np.array(enum).dtype.name, for values whose strings have one character
NpDtypeName(enum) ==
    IF \A e \in ArrayElements(enum) : e.k = "str" THEN "str32"
    ELSE IF \A e \in ArrayElements(enum) : e.k = "int" THEN "int64"
    ELSE IF \A e \in ArrayElements(enum) : e.k \in {"str", "int"} THEN "str672"
    ELSE "object"

\* name.startswith("str")
StartsWithStr(name) == name \in {"str", "str32", "str672"}

\* "char" if name.startswith("str") else name
CharIfStr(name) == IF StartsWithStr(name) THEN "char" ELSE name

\* item_dict.get("dtype") or np.array(enum).dtype.name
DtypeOrInferred(item_dict, enum) ==
    IF Truthy(Get(item_dict, "dtype", PyNone))
    THEN Lookup(item_dict, "dtype").s ELSE NpDtypeName(enum)

\* the enumeration block shared by attributes and fields
WithEnumeration(item_dict, enum) ==
    IF ~Truthy(enum) THEN item_dict
    ELSE Put(Put(item_dict, "enumeration", enum), "dtype",
             Str(CharIfStr(DtypeOrInferred(item_dict, enum))))

\* one attribute's converted dict (empty when nothing is set)
AttrDictWith(attr, dtype) ==
    IF IsErr(dtype) THEN dtype
    ELSE Dict(PutIf(WithEnumeration(PutIf(PutIf(<<>>, "value", Get(attr, "$value", PyNone)),
                                          "dtype", dtype),
                                    Get(attr, "enumeration", PyNone)),
                    "doc", Get(attr, "doc", PyNone)))

AttrDict(attr) == AttrDictWith(attr, DtypeOf(attr))

\* result[item["nx_name"]] = item_dict, unless building item_dict raised
StoreNamed(res, item, item_dict) ==
    IF IsErr(item_dict) THEN item_dict
    ELSE IF ~HasKey(item, "nx_name") THEN Err("KeyError")
    ELSE Dict(Put(res, Lookup(item, "nx_name").s, item_dict))

\* attr_dict or None
OrNone(attr_dict) ==
    IF IsErr(attr_dict) \/ Truthy(attr_dict) THEN attr_dict ELSE PyNone

RECURSIVE ConvertAttributesFrom(_, _, _)
ConvertAttributesFrom(res, attributes, i) ==
    IF IsErr(res) \/ i > Len(attributes) THEN res
    ELSE IF ~IsDict(attributes[i]) THEN Err("AttributeError")
    ELSE ConvertAttributesFrom(
             StoreNamed(res.d, attributes[i].d, OrNone(AttrDict(attributes[i].d))),
             attributes, i + 1)

convert_attributes(attributes) == ConvertAttributesFrom(Dict(<<>>), attributes, 1)

\* whether the loop of convert_fields skips the field (`elif reduce: continue`)
FieldSkipped(fld, reduce) == ~Truthy(Get(fld, "$value", PyNone)) /\ reduce

\* atr_dict: the converted attributes, and the units
WithUnits(conv, units) == IF IsErr(conv) THEN conv ELSE Dict(PutIf(conv.d, "units", units))

FieldAttrs(fld) ==
    WithUnits(IF Truthy(Get(fld, "attributes", PyNone))
              THEN convert_attributes(Lookup(fld, "attributes").l) ELSE Dict(<<>>),
              Get(fld, "$units", PyNone))

\* one field's converted dict
FieldDictWith(fld, dtype, atr_dict) ==
    IF IsErr(dtype) THEN dtype
    ELSE IF IsErr(atr_dict) THEN atr_dict
    ELSE Dict(PutIf(PutIf(WithEnumeration(
                              PutIf(PutIf(<<<<"nxclass", Str("NXfield")>>>>,
                                          "value", Get(fld, "$value", PyNone)),
                                    "dtype", dtype),
                              Get(fld, "enumeration", PyNone)),
                          "attrs", atr_dict),
                    "doc", Get(fld, "doc", PyNone)))

FieldDict(fld) == FieldDictWith(fld, DtypeOf(fld), FieldAttrs(fld))

RECURSIVE ConvertFieldsFrom(_, _, _, _)
ConvertFieldsFrom(res, fields, reduce, i) ==
    IF IsErr(res) \/ i > Len(fields) THEN res
    ELSE IF ~IsDict(fields[i]) THEN Err("AttributeError")
    ELSE IF FieldSkipped(fields[i].d, reduce)
    THEN ConvertFieldsFrom(res, fields, reduce, i + 1)
    ELSE ConvertFieldsFrom(StoreNamed(res.d, fields[i].d, FieldDict(fields[i].d)),
                           fields, reduce, i + 1)

convert_fields(fields, reduce) == ConvertFieldsFrom(Dict(<<>>), fields, reduce, 1)

\* one link's converted dict
LinkDict(lnk) ==
    Dict(PutIf(<<<<"nxclass", Str("NXlink")>>,
                 <<"target", Get(lnk, "$value", Get(lnk, "target", PyNone))>>>>,
               "doc", Get(lnk, "doc", PyNone)))

RECURSIVE ConvertLinksFrom(_, _, _)
ConvertLinksFrom(res, links, i) ==
    IF IsErr(res) \/ i > Len(links) THEN res
    ELSE IF ~IsDict(links[i]) THEN Err("AttributeError")
    ELSE ConvertLinksFrom(StoreNamed(res.d, links[i].d, LinkDict(links[i].d)),
                          links, i + 1)

convert_links(links) == ConvertLinksFrom(Dict(<<>>), links, 1)

----------------------------------------------------------------------------
(* reduce_converted, clean_docs, sort_converted *)

RECURSIVE reduce_converted(_)
RECURSIVE ReduceFrom(_, _, _)
ReduceFrom(res, dinput, i) ==
    IF i > Len(dinput) THEN res
    ELSE IF IsDict(dinput[i][2])
    THEN ReduceFrom(PutIf(res, dinput[i][1], reduce_converted(dinput[i][2])),
                    dinput, i + 1)
    ELSE ReduceFrom(Put(res, dinput[i][1], dinput[i][2]), dinput, i + 1)

\* a result that holds the class tag alone is returned empty
EmptyIfClassOnly(res) == IF KeySet(res) = {"nxclass"} THEN Dict(<<>>) ELSE Dict(res)

reduce_converted(dinput) == EmptyIfClassOnly(ReduceFrom(<<>>, dinput.d, 1))

\* val.replace("\n", " ").strip(), tabulated over the documentation texts of
\* the model's documents; a text with no line break and no outer blank is kept
NormalizeDoc(text) ==
    CASE text = " two\nlines " -> "two lines"
      [] text = "NXsource: hello\nNXdata: None" -> "NXsource: hello NXdata: None"
      [] OTHER -> text

RECURSIVE clean_docs(_, _)

\* one iteration of the loop over dinput.items()
CleanItem(res, key, val, keep_docs) ==
    IF IsDict(val) THEN StoreOrRaise(res, key, clean_docs(val, keep_docs))
    ELSE IF key = "doc"
    THEN IF keep_docs
         THEN IF IsStr(val) THEN Dict(Put(res, key, Str(NormalizeDoc(val.s))))
              ELSE Err("AttributeError")
         ELSE Dict(res)
    ELSE Dict(Put(res, key, val))

RECURSIVE CleanFrom(_, _, _, _)
CleanFrom(res, dinput, keep_docs, i) ==
    IF IsErr(res) \/ i > Len(dinput) THEN res
    ELSE CleanFrom(CleanItem(res.d, dinput[i][1], dinput[i][2], keep_docs),
                   dinput, keep_docs, i + 1)

clean_docs(dinput, keep_docs) == CleanFrom(Dict(<<>>), dinput.d, keep_docs, 1)

\* the keys of the model's documents in the order of Python's str comparison
KeyOrder ==
    <<"$nxdlref", "$units", "$value", "(NXdata)", "(NXdata)data",
      "(NXsource)", "@default", "@default(NX_CHAR)", "@units(NX_FLOAT)",
      "NXsource(NXobject)", "\\@units", "a", "attrs", "b", "bad-key",
      "category", "category(NXcollection)", "collection", "data",
      "data(NX_INT)", "data(link)", "default", "deprecated", "doc", "dtype",
      "energy", "energy(NX_FLOAT)", "energy(NX_NUMBER)", "entry",
      "entry(NXentry)", "enumeration", "ignoreExtraAttributes",
      "ignoreExtraFields", "ignoreExtraGroups", "mode", "mode(NX_BOOLEAN)",
      "mode(NX_CHAR)", "mode(NX_POSINT)", "name", "name(NX_CHAR)",
      "name(NX_DATE_TIME)", "nxclass", "object", "probe", "probe(NX_CHAR)",
      "probe(choice)", "source", "source(NXsource)", "symbols", "target",
      "type", "units", "unknown term", "value", "x", "y", "z">>

KeyRank(key) == CHOOSE i \in 1..Len(KeyOrder) : KeyOrder[i] = key

\* a < b on str
KeyLess(a, b) == KeyRank(a) < KeyRank(b)

\* the index of min(keys)
Least(keys) ==
    CHOOSE i \in 1..Len(keys) : \A j \in 1..Len(keys) : j # i => KeyLess(keys[i], keys[j])

\* keys without its element i
Without(keys, i) ==
    [j \in 1..(Len(keys) - 1) |-> IF j < i THEN keys[j] ELSE keys[j + 1]]

\* sorted(keys)
RECURSIVE Sorted(_)
Sorted(keys) ==
    IF Len(keys) <= 1 THEN keys
    ELSE <<keys[Least(keys)]>> \o Sorted(Without(keys, Least(keys)))

\* v.get("nxclass") != "NXfield"
NotField(v) == ~PyEq(Get(v.d, "nxclass", PyNone), Str("NXfield"))

\* the five lists of sort_converted
FirstKeys(d) == SelectSeq(<<"nxclass">>, LAMBDA k : HasKey(d, k))
LastKeys(d) == SelectSeq(<<"attrs">>, LAMBDA k : HasKey(d, k))
StringKeys(d) ==
    SelectSeq(KeysOf(d), LAMBDA k : ~IsDict(Lookup(d, k)) /\ k \notin {"nxclass", "attrs"})
GroupKeys(d) ==
    SelectSeq(KeysOf(d),
              LAMBDA k : /\ k \notin {"nxclass", "attrs"}
                         /\ IsDict(Lookup(d, k))
                         /\ NotField(Lookup(d, k)))
OtherKeys(d) ==
    SelectSeq(KeysOf(d),
              LAMBDA k : /\ k \notin {"nxclass", "attrs"}
                         /\ IsDict(Lookup(d, k))
                         /\ ~NotField(Lookup(d, k)))

\* the key order with the group keys left in insertion order: a variant
\* the ordering property must tell apart from sort_converted's
SortedKeysGroupsAsGiven(d) ==
    FirstKeys(d) \o Sorted(StringKeys(d)) \o GroupKeys(d)
      \o Sorted(OtherKeys(d)) \o LastKeys(d)

SortedKeys(d) ==
    FirstKeys(d) \o Sorted(StringKeys(d)) \o Sorted(GroupKeys(d))
      \o Sorted(OtherKeys(d)) \o LastKeys(d)

\* {k: dinput[k] for k in sorted_keys}
Reordered(d, sorted_keys) ==
    Dict([i \in 1..Len(sorted_keys) |-> <<sorted_keys[i], Lookup(d, sorted_keys[i])>>])

RECURSIVE sort_converted(_)

\* the first loop: every nested dict is replaced by its sorted form
SortNested(d) ==
    [i \in 1..Len(d) |->
        IF IsDict(d[i][2]) THEN <<d[i][1], sort_converted(d[i][2])>> ELSE d[i]]

SortLevel(d) == Reordered(d, SortedKeys(d))

sort_converted(dinput) == SortLevel(SortNested(dinput.d))

----------------------------------------------------------------------------
(* convert_nxyaml, resolve_nxdlrefs, convert_groups *)

\* the root-level keys popped from an original nxdl.yml document
RootMetadata ==
    {"type", "symbols", "deprecated", "ignoreExtraFields", "ignoreExtraAttributes",
     "ignoreExtraGroups", "doc"}

RECURSIVE convert_nxyaml(_, _, _, _, _)
RECURSIVE resolve_nxdlrefs(_, _)
RECURSIVE convert_groups(_, _, _)

\* the merge under the local node with the class tags left uncompared: a
\* variant the class-mismatch property must tell apart from resolve_nxdlrefs
CheckedMergeAnyClass(refgrp, grp_dict) ==
    IF IsErr(refgrp) THEN refgrp
    ELSE IF Len(refgrp.d) # 1 THEN Err("ValueError")
    ELSE IF ~IsDict(refgrp.d[1][2]) THEN Err("TypeError")
    ELSE deep_update(refgrp.d[1][2], Dict(grp_dict))

\* the checks on the converted reference, and the merge under the local node
CheckedMerge(refgrp, grp_dict) ==
    IF IsErr(refgrp) THEN refgrp
    ELSE IF Len(refgrp.d) # 1 THEN Err("ValueError")
    ELSE IF ~IsDict(refgrp.d[1][2]) THEN Err("TypeError")
    ELSE IF ~HasKey(refgrp.d[1][2].d, "nxclass") THEN Err("KeyError")
    ELSE IF ~HasKey(grp_dict, "nxclass") THEN Err("KeyError")
    ELSE IF ~PyEq(Lookup(refgrp.d[1][2].d, "nxclass"), Lookup(grp_dict, "nxclass"))
    THEN Err("RuntimeError")
    ELSE deep_update(refgrp.d[1][2], Dict(grp_dict))

\* the reference branch of resolve_nxdlrefs: grp_dict has lost its $nxdlref
MergeReference(fsys, fname, grp_dict) ==
    IF ~IsStr(fname) THEN Err("TypeError")
    ELSE CheckedMerge(convert_nxyaml(fsys, fname.s, FALSE, TRUE, FALSE), grp_dict)

\* the loop of resolve_nxdlrefs over the (merged) node's items
RECURSIVE ResolveChildrenFrom(_, _, _)
ResolveChildrenFrom(fsys, grp_dict, i) ==
    IF IsErr(grp_dict) \/ i > Len(grp_dict.d) THEN grp_dict
    ELSE IF IsDict(grp_dict.d[i][2])
    THEN ResolveChildrenFrom(fsys,
             StoreOrRaise(grp_dict.d, grp_dict.d[i][1],
                          resolve_nxdlrefs(fsys, grp_dict.d[i][2])),
             i + 1)
    ELSE ResolveChildrenFrom(fsys, grp_dict, i + 1)

resolve_nxdlrefs(fsys, grp_dict) ==
    ResolveChildrenFrom(fsys,
        IF Truthy(Get(grp_dict.d, "$nxdlref", PyNone))
        THEN MergeReference(fsys, Lookup(grp_dict.d, "$nxdlref"),
                            Remove(grp_dict.d, "$nxdlref"))
        ELSE Dict(Remove(grp_dict.d, "$nxdlref")),
        1)

\* grp_dict = deep_update(grp_dict, conv), unless either raised
MergeInto(grp_dict, conv) ==
    IF IsErr(grp_dict) THEN grp_dict
    ELSE IF IsErr(conv) THEN conv
    ELSE deep_update(grp_dict, conv)

\* grp_dict["attrs"] = deep_update(grp_dict.get("attrs", {}), attrs)
MergeAttrs(grp_dict, attrs) ==
    IF IsErr(grp_dict) THEN grp_dict
    ELSE IF IsErr(attrs) THEN attrs
    ELSE IF ~Truthy(attrs) THEN grp_dict
    ELSE StoreOrRaise(grp_dict.d, "attrs",
                      deep_update(Get(grp_dict.d, "attrs", Dict(<<>>)), attrs))

WithSubGroups(fsys, grp_dict, grp, reduce) ==
    IF ~Truthy(Get(grp, "groups", PyNone)) THEN grp_dict
    ELSE MergeInto(grp_dict, convert_groups(fsys, Lookup(grp, "groups").l, reduce))

WithFields(grp_dict, grp, reduce) ==
    IF ~Truthy(Get(grp, "fields", PyNone)) THEN grp_dict
    ELSE MergeInto(grp_dict, convert_fields(Lookup(grp, "fields").l, reduce))

WithAttributes(grp_dict, grp) ==
    MergeAttrs(grp_dict, convert_attributes(Get(grp, "attributes", List(<<>>)).l))

WithLinks(grp_dict, grp) ==
    IF ~Truthy(Get(grp, "links", PyNone)) THEN grp_dict
    ELSE MergeInto(grp_dict, convert_links(Lookup(grp, "links").l))

WithDoc(grp_dict, grp) ==
    IF IsErr(grp_dict) THEN grp_dict
    ELSE Dict(PutIf(grp_dict.d, "doc", Get(grp, "doc", PyNone)))

\* the class tag and the reference pointer a group starts from
GroupSkeleton(grp) ==
    Dict(<<<<"nxclass", Lookup(grp, "nx_class")>>,
           <<"$nxdlref", Get(grp, "$nxdlref", PyNone)>>>>)

\* one group's converted dict
GroupDict(fsys, grp, reduce) ==
    WithDoc(WithLinks(WithAttributes(WithFields(
        WithSubGroups(fsys, resolve_nxdlrefs(fsys, GroupSkeleton(grp)), grp, reduce),
        grp, reduce), grp), grp), grp)

RECURSIVE ConvertGroupsFrom(_, _, _, _, _)
ConvertGroupsFrom(res, fsys, groups, reduce, i) ==
    IF IsErr(res) \/ i > Len(groups) THEN res
    ELSE ConvertGroupsFrom(
             StoreNamed(res.d, groups[i].d, GroupDict(fsys, groups[i].d, reduce)),
             fsys, groups, reduce, i + 1)

convert_groups(fsys, groups, reduce) ==
    ConvertGroupsFrom(Dict(<<>>), fsys, groups, reduce, 1)

\* convert_groups(parsed.get("groups", []), ...), unless the parse raised
ConvertParsed(fsys, parsed, reduce) ==
    IF IsErr(parsed) THEN parsed
    ELSE convert_groups(fsys, Get(parsed.d, "groups", List(<<>>)).l, reduce)

\* what is left at the root once the metadata keys are popped
StripMetadata(fdict) == SelectSeq(fdict, LAMBDA p : p[1] \notin RootMetadata)

\* any number of root keys let through: a variant the root-count property
\* must tell apart from convert_nxyaml
RootCountAny(rest) == Len(rest) >= 0

\* the root must hold exactly one key
RootCountOk(rest) == Len(rest) = 1

\* the branch for an original nxdl.yml document: fdict has lost its category
ConvertOriginal(fsys, fdict, reduce) ==
    IF ~HasKey(fdict, "type") THEN Err("KeyError")
    ELSE IF ~RootCountOk(StripMetadata(fdict)) THEN Err("ValueError")
    ELSE ConvertParsed(fsys, parse_nxdlyml_level(Dict(StripMetadata(fdict))), reduce)

ReduceIf(converted, reduce) == IF reduce THEN reduce_converted(converted) ELSE converted
SortIf(converted, sort) == IF sort THEN sort_converted(converted) ELSE converted

\* the three passes that end convert_nxyaml
PostProcess(converted, reduce, sort, keep_docs) ==
    IF IsErr(converted) THEN converted
    ELSE clean_docs(SortIf(ReduceIf(converted, reduce), sort), keep_docs)

\* whether fdict.pop("category", None) is a true value
HasCategory(fdict) == Truthy(Get(fdict, "category", PyNone))

convert_nxyaml(fsys, fpath, reduce, sort, keep_docs) ==
    IF fpath \notin DOMAIN fsys \/ fsys[fpath] = Absent THEN Err("FileNotFoundError")
    ELSE IF ~IsDict(fsys[fpath]) THEN Err("AttributeError")
    ELSE PostProcess(
             IF HasCategory(fsys[fpath].d)
             THEN ConvertOriginal(fsys, Remove(fsys[fpath].d, "category"), reduce)
             ELSE resolve_nxdlrefs(fsys, Dict(Remove(fsys[fpath].d, "category"))),
             reduce, sort, keep_docs)

----------------
(* Bounds and the documents drawn from them *)

\* root-level entries drawn per generated document (besides the metadata)
MaxRootKeys == 2
\* results written back to disk and converted again
MaxDumps == 1

\* the dicts made of at most n entries of pool, in pool's order
SubDicts(pool, n) ==
    LET picks == {S \in SUBSET (1..Len(pool)) : Cardinality(S) <= n}
        pick(S) == SelectSeq([i \in 1..Len(pool) |-> IF i \in S THEN pool[i] ELSE <<>>],
                             LAMBDA e : e # <<>>)
    IN  {Dict(pick(S)) : S \in picks}

Files == {"main.yml", "ref.yml", "base.yml", "out.yml"}

\* base.yml: one NXdata entity, or two entities
BaseDocs ==
    {Dict(<<<<"data", Dict(<<<<"nxclass", Str("NXdata")>>, <<"a", Int(1)>>>>)>>>>),
     Dict(<<<<"data", Dict(<<<<"nxclass", Str("NXdata")>>>>)>>,
            <<"source", Dict(<<<<"nxclass", Str("NXsource")>>>>)>>>>)}

RefSource ==
    Dict(<<<<"nxclass", Str("NXsource")>>,
           <<"name", Str("synchrotron")>>,
           <<"probe", Dict(<<<<"nxclass", Str("NXfield")>>, <<"dtype", Str("str")>>,
                             <<"doc", Str("hello")>>>>)>>,
           <<"category", Dict(<<<<"nxclass", Str("NXfield")>>, <<"value", Str("x")>>>>)>>>>)

\* ref.yml: simplified documents of up to two entities (one refers on to
\* base.yml), and an original definition of NXsource
RefDocs ==
    {Dict(<<<<"source", RefSource>>>>),
     Dict(<<<<"doc", Str("hello")>>, <<"source", RefSource>>>>),
     Dict(<<<<"data", Dict(<<<<"nxclass", Str("NXdata")>>,
                              <<"$nxdlref", Str("base.yml")>>>>)>>>>),
     Dict(<<<<"source", RefSource>>,
            <<"data", Dict(<<<<"nxclass", Str("NXdata")>>>>)>>>>),
     Dict(<<<<"category", Str("base")>>, <<"type", Str("group")>>,
            <<"NXsource(NXobject)",
              Dict(<<<<"doc", Str("hello")>>,
                     <<"probe(NX_CHAR)", Dict(<<<<"enumeration",
                           Dict(<<<<"a", PyNone>>, <<"b", PyNone>>>>)>>>>)>>>>)>>>>)}

\* root entries of a simplified main.yml
SimplifiedRootPool ==
    <<<<"nxclass", Str("NXsource")>>,
      <<"$nxdlref", Str("ref.yml")>>,
      <<"entry", Dict(<<<<"nxclass", Str("NXentry")>>, <<"doc", Str(" two\nlines ")>>,
                        <<"source", Dict(<<<<"nxclass", Str("NXsource")>>,
                                           <<"$nxdlref", Str("ref.yml")>>,
                                           <<"probe", Dict(<<<<"value", Str("x-ray")>>>>)>>>>)>>>>)>>,
      <<"data", Dict(<<<<"nxclass", Str("NXdata")>>, <<"$nxdlref", Str("ref.yml")>>>>)>>,
      <<"probe", Dict(<<<<"nxclass", Str("NXfield")>>>>)>>>>

\* root entries of an original main.yml, besides the metadata
OriginalRootPool ==
    <<<<"source(NXsource)",
        Dict(<<<<"doc", Str(" two\nlines ")>>, <<"name(NX_CHAR)", PyNone>>,
               <<"@default", Dict(<<<<"doc", Str("hello")>>>>)>>>>)>>,
      <<"entry(NXentry)",
        Dict(<<<<"(NXdata)", Dict(<<<<"data(NX_INT)", PyNone>>>>)>>>>)>>,
      <<"(NXdata)",
        Dict(<<<<"name", Dict(<<<<"$value", Str("synchrotron")>>>>)>>>>)>>>>

\* the metadata an original main.yml starts with
MetaVariants ==
    {<<<<"category", Str("base")>>, <<"type", Str("group")>>>>,
     <<<<"category", Str("base")>>>>,
     <<<<"category", Str("base")>>, <<"doc", Str("hello")>>, <<"type", Str("group")>>,
       <<"symbols", PyNone>>>>,
     <<<<"category", Str("")>>, <<"type", Str("group")>>>>}

MainDocs ==
    SubDicts(SimplifiedRootPool, MaxRootKeys)
      \cup {Dict(meta \o g.d) : meta \in MetaVariants,
                                 g \in SubDicts(OriginalRootPool, MaxRootKeys)}

NoFiles == [f \in Files |-> Absent]

----------------------------------------------------------------------------
(* The conversion script: a document is converted, the result may be       *)
(* dumped to out.yml, and a document is converted again.                   *)

InitConvert ==
    /\ fs \in {[f \in Files |->
                   CASE f = "main.yml" -> m
                     [] f = "ref.yml" -> r
                     [] f = "base.yml" -> b
                     [] OTHER -> Absent] : m \in MainDocs, r \in RefDocs, b \in BaseDocs}
    /\ input = <<>>
    /\ op = "init"
    /\ result = PyNone
    /\ prev = PyNone
    /\ dumps = 0

\* convert_nxyaml(fpath, reduce, sort, keep_docs), as the notebook calls it
CallConvert(fpath, reduce, sort, keep_docs) ==
    /\ op \in {"init", "dump"}
    /\ fs[fpath] # Absent
    /\ input' = <<fpath, reduce, sort, keep_docs>>
    /\ result' = convert_nxyaml(fs, fpath, reduce, sort, keep_docs)
    /\ op' = "convert"
    /\ UNCHANGED <<fs, prev, dumps>>

\* whether a document takes the branch of an already simplified document
IsSimplified(doc) == IsDict(doc) /\ ~HasCategory(doc.d)

\* yaml.dump(converted, file): the result of the last conversion is written out
Dump ==
    /\ op = "convert"
    /\ IsDict(result)
    /\ dumps < MaxDumps
    /\ fs' = [fs EXCEPT !["out.yml"] = result]
    /\ prev' = [simplified |-> IsSimplified(fs[input[1]]), input |-> input,
                result |-> result]
    /\ dumps' = dumps + 1
    /\ op' = "dump"
    /\ UNCHANGED <<input, result>>

NextConvert ==
    \/ \E fpath \in {"main.yml", "out.yml"}, reduce \in BOOLEAN, sort \in BOOLEAN,
          keep_docs \in BOOLEAN : CallConvert(fpath, reduce, sort, keep_docs)
    \/ Dump

SpecConvert == InitConvert /\ [][NextConvert]_vars

----------------------------------------------------------------------------
(* deep_update called on a base mapping and an override mapping *)

\* the nesting depth of the mappings merged
MaxMergeDepth == 2

MergeLeaves == {Int(1), List(<<Int(2)>>)}

\* the mappings over keys, each key absent or bound to one of values
MappingsOver(keys, values) ==
    LET pick(f) == SelectSeq([i \in 1..Len(keys) |-> <<keys[i], f[i]>>],
                             LAMBDA p : p[2] # Absent)
    IN  {Dict(pick(f)) : f \in [1..Len(keys) -> values \cup {Absent}]}

\* mappings nested to depth n: the keys alternate between levels
RECURSIVE MergeDicts(_)
MergeDicts(n) ==
    IF n = 1 THEN MappingsOver(<<"x", "y">>, MergeLeaves)
    ELSE MappingsOver(IF n % 2 = 0 THEN <<"a", "b">> ELSE <<"x", "y">>,
                      MergeLeaves \cup MergeDicts(n - 1))

InitMerge ==
    /\ input \in MergeDicts(MaxMergeDepth) \X MergeDicts(MaxMergeDepth)
    /\ fs = NoFiles
    /\ op = "init"
    /\ result = PyNone
    /\ prev = PyNone
    /\ dumps = 0

\* deep_update(d, u)
CallDeepUpdate ==
    /\ op = "init"
    /\ result' = deep_update(input[1], input[2])
    /\ op' = "deep_update"
    /\ UNCHANGED <<fs, input, prev, dumps>>

NextMerge == CallDeepUpdate

SpecMerge == InitMerge /\ [][NextMerge]_vars

\* r is the merge of base b and override o: the keys are the union; a key of
\* one side keeps that side's value; two mappings merge; else the override wins
RECURSIVE IsMergeOf(_, _, _)
IsMergeOf(r, b, o) ==
    /\ IsDict(r)
    /\ KeySet(r.d) = KeySet(b.d) \cup KeySet(o.d)
    /\ \A key \in KeySet(r.d) :
          IF ~HasKey(o.d, key) THEN PyEq(Lookup(r.d, key), Lookup(b.d, key))
          ELSE IF ~HasKey(b.d, key) THEN PyEq(Lookup(r.d, key), Lookup(o.d, key))
          ELSE IF IsDict(Lookup(b.d, key)) /\ IsDict(Lookup(o.d, key))
          THEN IsMergeOf(Lookup(r.d, key), Lookup(b.d, key), Lookup(o.d, key))
          ELSE PyEq(Lookup(r.d, key), Lookup(o.d, key))

\* C2: deep_update(base, override) returns the merge of the two mappings: the
\* union of the keys, one-sided keys unmodified, mappings merged recursively,
\* and the override's value in every other collision.
C2_DeepUpdateIsMerge ==
    op = "deep_update" => IsMergeOf(result, input[1], input[2])

----------------------------------------------------------------------------
(* parse_nxdlyml_level called on one level of an nxdl.yml document *)

\* entries drawn per level
MaxLevelKeys == 3

\* the entries a level is drawn from
LevelPool ==
    <<<<"$value", Str("x")>>,
      <<"$units", Str("eV")>>,
      <<"$nxdlref", Str("ref.yml")>>,
      <<"doc", Str("hello")>>,
      <<"name", Dict(<<<<"$value", Str("synchrotron")>>>>)>>,
      <<"energy(NX_FLOAT)", PyNone>>,
      <<"source(NXsource)",
        Dict(<<<<"name", Dict(<<<<"$value", Str("synchrotron")>>>>)>>>>)>>,
      <<"@default", PyNone>>,
      <<"data(link)", Dict(<<<<"target", Str("x")>>>>)>>,
      <<"probe(choice)",
        Dict(<<<<"(NXsource)", Dict(<<<<"doc", Str("hello")>>>>)>>,
               <<"(NXdata)", PyNone>>>>)>>,
      <<"enumeration", Dict(<<<<"a", PyNone>>, <<"b", PyNone>>>>)>>,
      <<"unknown term", PyNone>>>>

InitParse ==
    /\ input \in {<<level>> : level \in SubDicts(LevelPool, MaxLevelKeys)}
    /\ fs = NoFiles
    /\ op = "init"
    /\ result = PyNone
    /\ prev = PyNone
    /\ dumps = 0

\* parse_nxdlyml_level(level)
CallParse ==
    /\ op = "init"
    /\ result' = parse_nxdlyml_level(input[1])
    /\ op' = "parse"
    /\ UNCHANGED <<fs, input, prev, dumps>>

NextParse == CallParse

SpecParse == InitParse /\ [][NextParse]_vars

\* the level without its value-marker keys
WithoutDollarKeys(level) == SelectSeq(level, LAMBDA p : ~StartsWithDollar(p[1]))

\* C1: every key of the level that begins with `$` is accepted without error
\* and is found, with its value unchanged, among the residual properties of
\* the parsed level (whenever the other keys of the level parse).
C1_DollarKeysPassThrough ==
    (/\ op = "parse"
     /\ \E i \in 1..Len(input[1].d) : StartsWithDollar(input[1].d[i][1])
     /\ ~IsErr(parse_nxdlyml_level(Dict(WithoutDollarKeys(input[1].d)))))
    => /\ IsDict(result)
       /\ \A i \in 1..Len(input[1].d) :
             StartsWithDollar(input[1].d[i][1])
             => PyEq(Get(result.d, input[1].d[i][1], Absent), input[1].d[i][2])

----------------------------------------------------------------------------
(* convert_fields and convert_attributes called on a list of parsed items *)

\* items per list
MaxItems == 2

ItemNames == <<"x", "y", "z">>

\* the type tokens a key carries (PyNone: the key carries none)
TypeTokens ==
    {PyNone, Str("NX_FLOAT"), Str("NX_INT"), Str("NX_BOOLEAN"), Str("NX_CHAR"),
     Str("NX_NUMBER"), Str("NX_DATE_TIME"), Str("NX_POSINT")}

\* the residual properties of an item: $value, enumeration, type
ItemProperties ==
    {[value |-> v, enumeration |-> e, type |-> t] :
        v \in {Absent, Str("x"), Int(0)},
        e \in {Absent, List(<<Str("a"), Str("b")>>), List(<<Int(1), Int(2)>>)},
        t \in {Absent, Str("NX_INT")}}

\* subdict.update(d) for one property that may be absent
PutPresent(d, key, v) == IF v = Absent THEN d ELSE Put(d, key, v)

\* an item as parse_nxdlyml_level appends it to fields or attributes
ParsedItem(term, name, token, props) ==
    Dict(PutPresent(PutPresent(PutPresent(
             <<<<"nx_term", Str(term)>>, <<"nx_name", Str(name)>>, <<"nx_type", token>>>>,
             "$value", props.value), "enumeration", props.enumeration),
         "type", props.type))

\* the lists of n items of one term, named after ItemNames
ItemLists(term, n) ==
    {[i \in 1..n |-> ParsedItem(term, ItemNames[i], tp[i][1], tp[i][2])] :
        tp \in [1..n -> TypeTokens \X ItemProperties]}

InitFields ==
    /\ \E term \in {"field", "attribute"}, n \in 0..MaxItems :
          input \in {<<term, items>> : items \in ItemLists(term, n)}
    /\ fs = NoFiles
    /\ op = "init"
    /\ result = PyNone
    /\ prev = PyNone
    /\ dumps = 0

\* convert_fields(fields, reduce)
CallConvertFields(reduce) ==
    /\ op = "init"
    /\ input[1] = "field"
    /\ input' = <<input[1], input[2], reduce>>
    /\ result' = convert_fields(input[2], reduce)
    /\ op' = "convert_fields"
    /\ UNCHANGED <<fs, prev, dumps>>

\* convert_attributes(attributes)
CallConvertAttributes ==
    /\ op = "init"
    /\ input[1] = "attribute"
    /\ result' = convert_attributes(input[2])
    /\ op' = "convert_attributes"
    /\ UNCHANGED <<fs, input, prev, dumps>>

NextFields ==
    \/ \E reduce \in BOOLEAN : CallConvertFields(reduce)
    \/ CallConvertAttributes

SpecFields == InitFields /\ [][NextFields]_vars

\* the item carries a literal value property: a string or a number
HasLiteralValue(item) ==
    HasKey(item, "$value") /\ Lookup(item, "$value").k \in {"str", "int"}

\* C7: convert_fields keeps every field that carries a literal $value and sets
\* the output field's value to it, with and without reduction; with reduction
\* the fields dropped are exactly those that carry no literal $value.
C7_LiteralValueKept ==
    op = "convert_fields"
    => /\ IsDict(result)
       /\ \A i \in 1..Len(input[2]) :
             LET fld == input[2][i].d
                 name == Lookup(fld, "nx_name").s
             IN  IF HasLiteralValue(fld)
                 THEN /\ HasKey(result.d, name)
                      /\ PyEq(Get(Lookup(result.d, name).d, "value", Absent),
                              Lookup(fld, "$value"))
                 ELSE input[3] => ~HasKey(result.d, name)

\* the label the fixed table gives the token carried by the item's key
TableLabel(item) == NX_DTYPES(Lookup(item, "nx_type").s)

\* C9: an item whose key carries a token of the type table is converted with
\* the table's label for that token as its dtype, whether or not it has an
\* enumeration; a label is inferred from an enumeration ("char" for strings)
\* only when no type token was given.
C9_DtypeFromTable ==
    op \in {"convert_fields", "convert_attributes"}
    => /\ IsDict(result)
       /\ \A i \in 1..Len(input[2]) :
             LET item == input[2][i].d
                 name == Lookup(item, "nx_name").s
             IN  HasKey(result.d, name)
                 => IF IsStr(Lookup(item, "nx_type")) /\ TableLabel(item) # PyNone
                    THEN /\ IsDict(Lookup(result.d, name))
                         /\ PyEq(Get(Lookup(result.d, name).d, "dtype", Absent),
                                 TableLabel(item))
                    ELSE (/\ Lookup(item, "nx_type") = PyNone
                          /\ ~HasKey(item, "type")
                          /\ PyEq(Get(item, "enumeration", Absent),
                                  List(<<Str("a"), Str("b")>>)))
                         => PyEq(Get(Lookup(result.d, name).d, "dtype", Absent),
                                 Str("char"))

----------------------------------------------------------------------------
(* sort_converted called on a converted mapping *)

\* entries per mapping handed to sort_converted
MaxSortKeys == 3

\* a group whose keys fall in all five classes of the order, given unsorted
UnsortedEntry ==
    Dict(<<<<"attrs", Dict(<<<<"units", Str("eV")>>, <<"default", Str("x")>>>>)>>,
           <<"probe", Dict(<<<<"dtype", Str("str")>>, <<"nxclass", Str("NXfield")>>>>)>>,
           <<"source", Dict(<<<<"name", Str("x")>>, <<"nxclass", Str("NXsource")>>>>)>>,
           <<"name", Str("x")>>,
           <<"energy", Dict(<<<<"nxclass", Str("NXfield")>>>>)>>,
           <<"doc", Str("hello")>>,
           <<"data", Dict(<<<<"b", Int(1)>>, <<"a", Int(0)>>>>)>>,
           <<"nxclass", Str("NXentry")>>>>)

\* the entries a mapping is drawn from
SortPool ==
    <<<<"nxclass", Str("NXentry")>>,
      <<"attrs", Dict(<<<<"units", Str("eV")>>, <<"default", Str("x")>>>>)>>,
      <<"name", Str("x")>>,
      <<"doc", Str("hello")>>,
      <<"entry", UnsortedEntry>>,
      <<"data", Dict(<<<<"b", Int(1)>>, <<"a", Int(0)>>>>)>>,
      <<"probe", Dict(<<<<"dtype", Str("str")>>, <<"nxclass", Str("NXfield")>>>>)>>,
      <<"energy", Dict(<<<<"nxclass", Str("NXfield")>>>>)>>>>

\* the dicts of at most n entries of pool, in every insertion order
OrderedDicts(pool, n) ==
    LET picks(k) == {g \in [1..k -> 1..Len(pool)] :
                        \A i, j \in 1..k : i # j => g[i] # g[j]}
    IN  UNION {{Dict([i \in 1..k |-> pool[f[i]]]) : f \in picks(k)} : k \in 0..n}

InitSort ==
    /\ input \in {<<dinput>> : dinput \in OrderedDicts(SortPool, MaxSortKeys)}
    /\ fs = NoFiles
    /\ op = "init"
    /\ result = PyNone
    /\ prev = PyNone
    /\ dumps = 0

\* sort_converted(dinput)
CallSort ==
    /\ op = "init"
    /\ result' = sort_converted(input[1])
    /\ op' = "sort"
    /\ UNCHANGED <<fs, input, prev, dumps>>

NextSort == CallSort

SpecSort == InitSort /\ [][NextSort]_vars

\* the class of a sibling key: 0 the class tag, 1 a non-mapping value, 2 a
\* group-like container, 3 any remaining key, 4 the attribute container
OrderClass(key, v) ==
    IF key = "nxclass" THEN 0
    ELSE IF key = "attrs" THEN 4
    ELSE IF ~IsDict(v) THEN 1
    ELSE IF NotField(v) THEN 2
    ELSE 3

\* the siblings of d come class by class, alphabetically in classes 1 and 2
SiblingsOrdered(d) ==
    \A i, j \in 1..Len(d) :
        i < j =>
            \/ OrderClass(d[i][1], d[i][2]) < OrderClass(d[j][1], d[j][2])
            \/ /\ OrderClass(d[i][1], d[i][2]) = OrderClass(d[j][1], d[j][2])
               /\ OrderClass(d[i][1], d[i][2]) \in {1, 2} => KeyLess(d[i][1], d[j][1])

RECURSIVE OrderedAtEveryLevel(_)
OrderedAtEveryLevel(v) ==
    IsDict(v) => /\ SiblingsOrdered(v.d)
                 /\ \A i \in 1..Len(v.d) : OrderedAtEveryLevel(v.d[i][2])

\* C8: sort_converted returns a mapping with the keys and values of its input
\* at every nesting level, ordered at every level as: nxclass first, then the
\* keys of non-mapping values alphabetically, then the group-like container
\* keys alphabetically, then the remaining keys, and attrs last.
C8_SortOrder ==
    op = "sort"
    => /\ IsDict(result)
       /\ PyEq(result, input[1])
       /\ OrderedAtEveryLevel(result)

\* a mapping of MaxSortKeys entries, one of them the unsorted group, has been
\* sorted into another order
C8_Witness ==
    /\ op = "sort"
    /\ Len(input[1].d) = MaxSortKeys
    /\ HasKey(input[1].d, "entry")
    /\ ~SiblingsOrdered(input[1].d)
    /\ KeysOf(result.d) # KeysOf(input[1].d)
    /\ OrderedAtEveryLevel(result)

----------------------------------------------------------------------------
(* resolve_nxdlrefs called on a node that carries a reference pointer *)

\* what the local node gives for the referenced entity's properties: nothing,
\* a scalar, a mapping, or a child that carries a pointer of its own
LocalOverrides ==
    {Dict(PutPresent(PutPresent(PutPresent(<<>>, "name", n), "probe", p), "data", c)) :
        n \in {Absent, Str("local"), Dict(<<<<"value", Str("x-ray")>>>>), Dict(<<>>)},
        p \in {Absent, Dict(<<<<"value", Str("x-ray")>>>>), Str("local")},
        c \in {Absent, Dict(<<<<"nxclass", Str("NXdata")>>,
                              <<"$nxdlref", Str("base.yml")>>>>)}}

PointerNodes ==
    {Dict(<<<<"nxclass", Str(c)>>, <<"$nxdlref", Str(f)>>>> \o o.d) :
        c \in {"NXsource", "NXdata"}, f \in {"ref.yml", "base.yml"},
        o \in LocalOverrides}

InitResolve ==
    /\ fs \in {[f \in Files |->
                   CASE f = "ref.yml" -> r
                     [] f = "base.yml" -> b
                     [] OTHER -> Absent] : r \in RefDocs, b \in BaseDocs}
    /\ input \in {<<node>> : node \in PointerNodes}
    /\ op = "init"
    /\ result = PyNone
    /\ prev = PyNone
    /\ dumps = 0

\* resolve_nxdlrefs(grp_dict, root_dir)
CallResolve ==
    /\ op = "init"
    /\ result' = resolve_nxdlrefs(fs, input[1])
    /\ op' = "resolve"
    /\ UNCHANGED <<fs, input, prev, dumps>>

NextResolve == CallResolve

SpecResolve == InitResolve /\ [][NextResolve]_vars

\* whether the node carries a reference pointer
HasPointer(node) == Truthy(Get(node, "$nxdlref", PyNone))

\* what converting the file a node points to yields
Referenced(fsys, node) ==
    IF IsStr(Lookup(node, "$nxdlref"))
    THEN convert_nxyaml(fsys, Lookup(node, "$nxdlref").s, FALSE, TRUE, FALSE)
    ELSE Err("TypeError")

\* the referenced file yields exactly one top-level entity, of the node's class
PointsToOneOfClass(fsys, node) ==
    /\ IsDict(Referenced(fsys, node))
    /\ Len(Referenced(fsys, node).d) = 1
    /\ IsDict(Referenced(fsys, node).d[1][2])
    /\ HasKey(node, "nxclass")
    /\ HasKey(Referenced(fsys, node).d[1][2].d, "nxclass")
    /\ PyEq(Lookup(Referenced(fsys, node).d[1][2].d, "nxclass"), Lookup(node, "nxclass"))

\* every pointer in v, at any depth, is to one entity of the pointing node's class
RECURSIVE AllPointersValid(_, _)
AllPointersValid(fsys, v) ==
    IsDict(v) => /\ HasPointer(v.d) => PointsToOneOfClass(fsys, v.d)
                 /\ \A i \in 1..Len(v.d) : AllPointersValid(fsys, v.d[i][2])

\* every value the local node gives is the value r holds (pointers aside)
RECURSIVE LocalWins(_, _)
LocalWins(r, local) ==
    /\ IsDict(r)
    /\ \A i \in 1..Len(local.d) :
          local.d[i][1] # "$nxdlref"
          => /\ HasKey(r.d, local.d[i][1])
             /\ IF IsDict(local.d[i][2])
                THEN LocalWins(Lookup(r.d, local.d[i][1]), local.d[i][2])
                ELSE PyEq(Lookup(r.d, local.d[i][1]), local.d[i][2])

\* every property of the entity that the local node does not give is kept
BasePreserved(r, entity, local) ==
    /\ IsDict(r)
    /\ \A i \in 1..Len(entity.d) :
          ~HasKey(local.d, entity.d[i][1])
          => /\ HasKey(r.d, entity.d[i][1])
             /\ PyEq(Lookup(r.d, entity.d[i][1]), entity.d[i][2])

\* no node of v, at any depth, still carries a pointer
RECURSIVE NoPointerLeft(_)
NoPointerLeft(v) ==
    IsDict(v) => /\ ~HasKey(v.d, "$nxdlref")
                 /\ \A i \in 1..Len(v.d) : NoPointerLeft(v.d[i][2])

\* C4: for a node with a pointer to a file that yields exactly one entity of
\* the node's class, resolve_nxdlrefs returns the deep merge of the local node
\* (pointer removed) over the referenced entity: every locally given value
\* wins, every other property of the entity is preserved, and the pointers
\* nested in the node are resolved the same way.
C4_MergeOverReference ==
    (op = "resolve" /\ HasPointer(input[1].d) /\ AllPointersValid(fs, input[1]))
    => /\ IsDict(result)
       /\ LocalWins(result, input[1])
       /\ BasePreserved(result, Referenced(fs, input[1].d).d[1][2], input[1])
       /\ NoPointerLeft(result)

----------------------------------------------------------------------------
(* Properties of the conversion script *)

\* the document the last call converted
Converted == fs[input[1]]

\* the nodes of v: v and the mappings nested in it at any depth
RECURSIVE NodesOf(_)
NodesOf(v) ==
    IF ~IsDict(v) THEN {}
    ELSE {v} \cup UNION {NodesOf(v.d[i][2]) : i \in 1..Len(v.d)}

PointerNodesOf(v) == {n \in NodesOf(v) : HasPointer(n.d)}

\* converting the referenced file yields other than exactly one entity
BadCardinality(fsys, node) ==
    IsDict(Referenced(fsys, node)) /\ Len(Referenced(fsys, node).d) # 1

\* the one entity of the referenced file has another class tag than the node
BadClass(fsys, node) ==
    /\ IsDict(Referenced(fsys, node))
    /\ Len(Referenced(fsys, node).d) = 1
    /\ IsDict(Referenced(fsys, node).d[1][2])
    /\ HasKey(node, "nxclass")
    /\ HasKey(Referenced(fsys, node).d[1][2].d, "nxclass")
    /\ ~PyEq(Lookup(Referenced(fsys, node).d[1][2].d, "nxclass"), Lookup(node, "nxclass"))

\* C5: a pointer to a file whose conversion does not yield exactly one entity
\* fails with the cardinality error (ValueError), a pointer to an entity of
\* another class with the class-mismatch error (RuntimeError); either one, or
\* the failure of the referenced file's own conversion, aborts the conversion
\* of the referencing document, which returns no result.
C5_ReferenceErrorsAbort ==
    (op = "convert" /\ IsSimplified(Converted))
    => /\ (\E n \in PointerNodesOf(Converted) :
              \/ BadCardinality(fs, n.d)
              \/ BadClass(fs, n.d)
              \/ IsErr(Referenced(fs, n.d)))
          => IsErr(result)
       /\ \A n \in PointerNodesOf(Converted) :
             PointerNodesOf(Converted) = {n}
             => /\ BadCardinality(fs, n.d) => result = Err("ValueError")
                /\ BadClass(fs, n.d) => result = Err("RuntimeError")
                /\ IsErr(Referenced(fs, n.d)) => result = Referenced(fs, n.d)

\* main.yml points to ref.yml, whose own pointer is to a file of two
\* entities: the cardinality error of ref.yml has aborted main.yml
C5_Witness ==
    /\ op = "convert"
    /\ input[1] = "main.yml"
    /\ IsSimplified(Converted)
    /\ \E n \in PointerNodesOf(Converted) :
          /\ PointerNodesOf(Converted) = {n}
          /\ Lookup(n.d, "$nxdlref") = Str("ref.yml")
          /\ Referenced(fs, n.d) = Err("ValueError")
    /\ \E m \in PointerNodesOf(fs["ref.yml"]) : BadCardinality(fs, m.d)
    /\ result = Err("ValueError")

\* what is left at the root once category and the metadata keys are stripped
RootRest(doc) == StripMetadata(Remove(doc.d, "category"))

\* C6 as stated: every document whose root does not hold exactly one key
\* besides the metadata keys fails to convert.
C6_OneRootKeyForEveryDocument ==
    (op = "convert" /\ Len(RootRest(Converted)) # 1) => IsErr(result)

\* C6, amended: a document whose root carries a true category fails with
\* KeyError when the root has no type key, and otherwise with ValueError
\* unless exactly one key is left besides the metadata keys; a document
\* without a true category is not stripped or counted, and is converted
\* whatever the number of its root keys when it holds no reference pointer.
C6_OneRootKeyForOriginals ==
    op = "convert"
    => IF HasCategory(Converted.d)
       THEN /\ ~HasKey(Converted.d, "type") => result = Err("KeyError")
            /\ (HasKey(Converted.d, "type") /\ Len(RootRest(Converted)) # 1)
               => result = Err("ValueError")
       ELSE PointerNodesOf(Converted) = {} => IsDict(result)

\* an original document with two groups at its root has been refused
C6_Witness ==
    /\ op = "convert"
    /\ HasCategory(Converted.d)
    /\ HasKey(Converted.d, "type")
    /\ Len(RootRest(Converted)) = 2
    /\ result = Err("ValueError")

\* v with its documentation texts normalised
DocsNormalized(v) == IF IsDict(v) THEN clean_docs(v, TRUE) ELSE v

\* C3: converting the dumped result of converting a simplified document,
\* with the same flags and reduce disabled, returns the same tree as the
\* first conversion did, the formatting of documentation text aside.
C3_Idempotent ==
    (/\ op = "convert"
     /\ input[1] = "out.yml"
     /\ dumps > 0
     /\ prev.simplified
     /\ ~prev.input[2]
     /\ input = <<"out.yml", prev.input[2], prev.input[3], prev.input[4]>>)
    => /\ IsDict(result)
       /\ PyEq(DocsNormalized(result), DocsNormalized(prev.result))

\* no mapping nested in v is empty or holds the class tag alone
RECURSIVE NoTrivialNode(_)
NoTrivialNode(v) ==
    \A i \in 1..Len(v.d) :
        IsDict(v.d[i][2])
        => /\ Len(v.d[i][2].d) > 0
           /\ KeySet(v.d[i][2].d) # {"nxclass"}
           /\ NoTrivialNode(v.d[i][2])

\* C10: with reduce requested, the result of convert_nxyaml holds at no depth
\* an empty mapping or a node whose only key is the class tag, for either
\* setting of keep_docs.
C10_NoTrivialNodeAfterReduce ==
    (op = "convert" /\ input[2] /\ IsDict(result)) => NoTrivialNode(result)

====
